---- MODULE Spec2Model ----
(***************************************************************************)
(* The multipart upload endpoint of my-first-static-web-app2.              *)
(*                                                                         *)
(* Two registrations of the 'storage' HTTP function are modelled:          *)
(*   "full"  - src/api/storage/_index.js, lines 234-428                    *)
(*   "basic" - src/api/index.js, lines 15-66                               *)
(* Each request runs the handler as a sequence of atomic blocks separated  *)
(* by the handler's await points (request.arrayBuffer, createIfNotExists,  *)
(* uploadData).  The multipart parser and the blob store are external      *)
(* collaborators: the parser is given by its result (a sequence of parts   *)
(* or an exception), the blob store by a set of containers and a map from  *)
(* blob keys to blobs.                                                     *)
(*                                                                         *)
(* Text that the code inspects or builds (file names, field values, blob   *)
(* keys) is a sequence of one-character strings; messages that the code    *)
(* only passes on are TLA+ strings.                                        *)
(***************************************************************************)
EXTENDS Integers, Sequences, FiniteSets, TLC

\* ------------------------------------------------------------------ bounds
\* Requests that may be in flight together under SpecConc.
NumReq == 2
\* Last value of the wall clock (milliseconds since the process started).
MaxClock == 1
\* Largest number of required fields that a submitted body leaves out.
MaxMissing == 1
\* Largest number of parts with a filename in a submitted body.
MaxFiles == 2

Reqs == 1..NumReq

\* ------------------------------------------------------------ text helpers
\* JavaScript white space, as far as the modelled inputs use it.
WhiteSpace == {" ", "\t"}

\* String.prototype.trim
RECURSIVE TrimLeft(_)
TrimLeft(s) ==
    IF s # <<>> /\ Head(s) \in WhiteSpace THEN TrimLeft(Tail(s)) ELSE s

RECURSIVE TrimRight(_)
TrimRight(s) ==
    IF s # <<>> /\ s[Len(s)] \in WhiteSpace
    THEN TrimRight(SubSeq(s, 1, Len(s) - 1))
    ELSE s

trim(s) == TrimRight(TrimLeft(s))

\* String.prototype.toLowerCase, one character
LowerChar(c) ==
    CASE c = "X" -> "x"
      [] c = "L" -> "l"
      [] c = "S" -> "s"
      [] c = "R" -> "r"
      [] c = "T" -> "t"
      [] OTHER -> c

toLowerCase(s) == [i \in 1..Len(s) |-> LowerChar(s[i])]

EndsWith(s, suffix) ==
    /\ Len(s) >= Len(suffix)
    /\ SubSeq(s, Len(s) - Len(suffix) + 1, Len(s)) = suffix

\* Index of the last "." of s, 0 when there is none.
LastDot(s) ==
    LET dots == {i \in 1..Len(s) : s[i] = "."}
    IN  IF dots = {} THEN 0 ELSE CHOOSE i \in dots : \A j \in dots : j <= i

\* filename.split('.').pop()
SplitPop(s) == SubSeq(s, LastDot(s) + 1, Len(s))

\* Buffer.prototype.toString(): UTF-8 decoding.  The byte "\\xFF" never occurs
\* in well-formed UTF-8 and decodes to the replacement character.
DecodeByte(b) == IF b = "\\xFF" THEN "\\uFFFD" ELSE b

toString(data) == [i \in 1..Len(data) |-> DecodeByte(data[i])]

\* new Date().toISOString() at clock value t: the date and hour, ':', the clock
\* value standing for minutes and seconds, '.', the milliseconds and 'Z'.
toISOString(t) == <<"2025-06-26T22", ":", ToString(t), ".", "000Z">>

\* .replace(/[:.]/g, '-')
ReplaceColonDot(s) == [i \in 1..Len(s) |-> IF s[i] \in {":", "."} THEN "-" ELSE s[i]]

\* ---------------------------------------------------------------- requests
\* The result of headers.get(name): <<>> is null, <<v>> the header's value.
HeadersGet(h, name) == IF name \in DOMAIN h THEN <<h[name]>> ELSE <<>>

\* JavaScript truthiness of headers.get's result: null and '' are falsy.
TruthyHeader(opt) == opt # <<>> /\ opt[1] # ""

\* multipart.getBoundary(contentType) of the parse-multipart package: the text
\* after '=' of the first ';'-separated item that holds 'boundary', else ''.
getBoundary(opt) ==
    IF opt = <<>> THEN ""
    ELSE CASE opt[1] = "multipart/form-data; boundary=----WebKitFormBoundary7MA4YWxkTrZu0gW"
                -> "----WebKitFormBoundary7MA4YWxkTrZu0gW"
           [] OTHER -> ""

ContentTypes ==
    { "multipart/form-data; boundary=----WebKitFormBoundary7MA4YWxkTrZu0gW",
      "multipart/form-data",
      "application/json",
      "" }

\* The headers of a request: with or without a content-type header.
HeaderSets == {<<>>} \cup {("content-type" :> ct) : ct \in ContentTypes}

requiredFields ==
    <<"company", "business_unit", "location", "time_period",
      "esg_topic", "esg_metric", "unit">>

RequiredSet == {requiredFields[i] : i \in 1..Len(requiredFields)}

\* A part as multipart.Parse returns it: a form field has a name and data, a
\* file has a filename and a declared type as well.
FieldPart(n, v) == [name |-> n, data |-> v]
FilePart(fn, bytes) ==
    [name |-> "file", filename |-> fn, data |-> bytes,
     type |-> "application/vnd.openxmlformats-officedocument.spreadsheetml.sheet"]

\* Variant of HasFilename that takes filename === '' for a file name.
HasFilenameKey(p) == "filename" \in DOMAIN p

\* JavaScript truthiness of part.filename and part.name.
HasFilename(p) == "filename" \in DOMAIN p /\ p.filename # <<>>
HasName(p) == "name" \in DOMAIN p /\ p.name # ""

\* ------------------------------------------------------------------ inputs
\* The value a well-behaved client submits for a field.
DefaultValue(f) == IF f = "company" THEN <<"A", "c", "m", "e">> ELSE <<"v", "-", f>>

\* Values that exercise validation and decoding: empty, blank, padded with
\* white space, and a byte that is not UTF-8.
OddValues == { <<>>, <<" ">>, <<" ", "a", "\t">>, <<"\\xFF">> }

GoodName == <<"r", ".", "x", "l", "s", "x">>
BadName == <<"r", ".", "t", "x", "t">>

FileNames ==
    { GoodName,
      <<"R", ".", "X", "L", "S">>,
      BadName,
      <<"x", "l", "s", "x">>,
      <<"r", ".", "x", "l", "s", ".", "t", "x", "t">> }

\* The bytes of the i-th file of a body.
FileBytes(i) == <<"P", "K", ToString(i)>>

\* The field parts of a body that leaves out the fields of `missing` and gives
\* field `odd` the value `v`.
FieldParts(missing, odd, v) ==
    LET present == SelectSeq(requiredFields, LAMBDA f : f \notin missing)
    IN  [i \in 1..Len(present) |->
            FieldPart(present[i], IF present[i] = odd THEN v ELSE DefaultValue(present[i]))]

FileParts(names) == [i \in 1..Len(names) |-> FilePart(names[i], FileBytes(i))]

AllFields == FieldParts({}, "", <<>>)

SeqsUpTo(S, n) == UNION {[1..k -> S] : k \in 0..n}

\* The fields that get an odd value: the first, a middle and the last one.
OddFields == {"company", "time_period", "unit"}

\* Bodies that vary the metadata, with one file of a good name, and bodies
\* that leave fields out, with one file of a bad name.
FieldBodies ==
    { FieldParts(m, o[1], o[2]) \o FileParts(<<GoodName>>) :
        m \in {x \in SUBSET RequiredSet : Cardinality(x) <= MaxMissing},
        o \in {<<"", <<>>>>} \cup (OddFields \X OddValues) }
    \cup { FieldParts(m, "", <<>>) \o FileParts(<<BadName>>) :
              m \in {x \in SUBSET RequiredSet : Cardinality(x) <= MaxMissing} }

\* Bodies that vary the files, placed before the fields.
FileBodies ==
    { FileParts(names) \o AllFields : names \in SeqsUpTo(FileNames, MaxFiles) }
    \cup { FileParts(names) \o FieldParts({"unit"}, "", <<>>) :
              names \in SeqsUpTo({GoodName, BadName}, 1) }

\* Parts beyond the required ones: an additional field, a second value for a
\* required field, a second and blank value for one, fields named like the
\* handler's own blob metadata, and a part without a name, and a file input
\* that the client left empty (its filename is '').
ExtraParts ==
    { FieldPart("notes", <<"n">>),
      FieldPart("company", <<"B">>),
      FieldPart("unit", <<" ">>),
      FieldPart("originalFilename", <<"z">>),
      FieldPart("uploadedAt", <<"z">>),
      [data |-> <<"q">>],
      [name |-> "file", filename |-> <<>>, data |-> <<>>,
       type |-> "application/octet-stream"] }

ExtraBodies ==
    { AllFields \o <<x>> \o FileParts(<<GoodName>>) : x \in ExtraParts }
    \cup { <<x>> \o AllFields \o FileParts(<<GoodName>>) : x \in ExtraParts }

\* No file selected: the file input left empty, and no part at all.
NoFileBodies ==
    { AllFields \o <<x>> : x \in ExtraParts } \cup { <<>> }

PartLists == FieldBodies \cup FileBodies \cup ExtraBodies \cup NoFileBodies

\* What request.arrayBuffer() delivers, given by what multipart.Parse makes of
\* it: the parts, or the message of the exception it throws.
Bodies ==
    { [parts |-> ps, parseError |-> ""] : ps \in PartLists }
    \cup { [parts |-> <<>>, parseError |-> "Unexpected end of multipart data"],
           [parts |-> <<>>, parseError |-> "Cannot read properties of undefined"] }

\* -------------------------------------------------------------- environment
ValidConnection == "UseDevelopmentStorage=true"
MalformedConnection == "AccountName"

\* process.env.AzureWebJobsStorage; '' stands for a variable that is not set.
EnvValues == {"", ValidConnection, MalformedConnection}

\* local.settings.json beside the handler: no file, a file that is not JSON, a
\* file without the key, a file that holds the connection string.
SettingsFiles ==
    { [exists |-> FALSE],
      [exists |-> TRUE, json |-> FALSE],
      [exists |-> TRUE, json |-> TRUE, Values |-> <<>>],
      [exists |-> TRUE, json |-> TRUE,
       Values |-> ("AzureWebJobsStorage" :> ValidConnection)] }

containerName == "upload"

\* blockBlobClient.url
BlobUrl(container, key) == [container |-> container, blob |-> key]

\* ------------------------------------------------- handler, _index.js 234-428
NoResponse == [status |-> 0]
NoPart == [data |-> <<>>]
NoLocals ==
    [parts |-> <<>>, filePart |-> NoPart, fields |-> <<>>,
     connectionString |-> "", uniqueFilename |-> <<>>]

\* A step of a handler: the response it returns (NoResponse while the handler
\* goes on), the calls it made, its local variables and where it waits next.
Step(resp, made, loc, next) ==
    [response |-> resp, calls |-> made, locals |-> loc, pc |-> next]

Call(name) == [op |-> name]

\* Variant of Failure that flags the failure as a success.
FailureFlaggedSuccess(code, message) ==
    [status |-> code, jsonBody |-> [success |-> TRUE, error |-> message]]

Failure(code, message) ==
    [status |-> code, jsonBody |-> [success |-> FALSE, error |-> message]]

\* Variant of FailureWithDetails that keeps the cause to itself.
FailureDetailsWithheld(code, message, details) ==
    [status |-> code,
     jsonBody |-> [success |-> FALSE, error |-> message, details |-> ""]]

FailureWithDetails(code, message, details) ==
    [status |-> code,
     jsonBody |-> [success |-> FALSE, error |-> message, details |-> details]]

\* Variant of InternalServerError that blames the client.
InternalAsBadRequest(message) ==
    FailureWithDetails(400, "Internal server error", message)

\* catch (error) of the handler
InternalServerError(message) ==
    FailureWithDetails(500, "Internal server error", message)

\* !contentType
MissingContentType(contentType) == ~TruthyHeader(contentType)

\* Variant of BoundaryNotFound that never reports a missing boundary.
BoundaryNeverMissing(boundary) == FALSE

\* !boundary
BoundaryNotFound(boundary) == boundary = ""

\* From the entry of the handler to `await request.arrayBuffer()`.
FullEntry(headers) ==
    LET contentType == HeadersGet(headers, "content-type")
        boundary == getBoundary(contentType)
    IN  IF MissingContentType(contentType)
        THEN Step(Failure(400, "Missing content-type header"), <<>>, NoLocals, "done")
        ELSE IF BoundaryNotFound(boundary)
        THEN Step(Failure(400, "Malformed content-type header: boundary not found"),
                  <<>>, NoLocals, "done")
        ELSE Step(NoResponse, <<Call("arrayBuffer")>>, NoLocals, "readBody")

\* Variant of FindFilePart that takes the last part with a filename (the loop
\* of testMultipartParsing).
FindLastFilePart(parts) ==
    LET files == {i \in 1..Len(parts) : HasFilename(parts[i])}
    IN  IF files = {} THEN 0 ELSE CHOOSE i \in files : \A j \in files : j <= i

\* parts.find(p => p.filename): the index of the first part with a filename,
\* 0 when there is none.
FindFilePart(parts) ==
    LET files == {i \in 1..Len(parts) : HasFilename(parts[i])}
    IN  IF files = {} THEN 0 ELSE CHOOSE i \in files : \A j \in files : i <= j

\* Variant of isExcelFile without the anchor: '.xls' anywhere in the name.
isExcelFileUnanchored(filename) ==
    \E i \in 1..Len(filename) :
        /\ i + 3 <= Len(filename)
        /\ SubSeq(toLowerCase(filename), i, i + 3) = <<".", "x", "l", "s">>

\* /\.(xlsx|xls)$/i.test(filename)
isExcelFile(filename) ==
    \/ EndsWith(toLowerCase(filename), <<".", "x", "l", "s", "x">>)
    \/ EndsWith(toLowerCase(filename), <<".", "x", "l", "s">>)

\* Variant of IsField that takes every named part, files included.
IsFieldAny(part) == HasName(part)

\* The parts that the loop over the parts takes as metadata.
IsField(part) == ~HasFilename(part) /\ HasName(part)

\* Variant of CollectFields that trims the values it stores.
CollectFieldsTrimmed(parts) ==
    LET idx == {i \in 1..Len(parts) : IsField(parts[i])}
        last(n) == CHOOSE i \in idx :
                      /\ parts[i].name = n
                      /\ \A j \in idx : parts[j].name = n => j <= i
    IN  [n \in {parts[i].name : i \in idx} |-> trim(toString(parts[last(n)].data))]

\* Variant of CollectFields where the first part of a name keeps its place.
CollectFieldsFirstWins(parts) ==
    LET idx == {i \in 1..Len(parts) : IsField(parts[i])}
        first(n) == CHOOSE i \in idx :
                       /\ parts[i].name = n
                       /\ \A j \in idx : parts[j].name = n => i <= j
    IN  [n \in {parts[i].name : i \in idx} |-> toString(parts[first(n)].data)]

\* The loop that fills `fields`: a later part replaces an earlier one of the
\* same name.
CollectFields(parts) ==
    LET idx == {i \in 1..Len(parts) : IsField(parts[i])}
        last(n) == CHOOSE i \in idx :
                      /\ parts[i].name = n
                      /\ \A j \in idx : parts[j].name = n => j <= i
    IN  [n \in {parts[i].name : i \in idx} |-> toString(parts[last(n)].data)]

\* Variant of IsBlank without the trim (the test of testMultipartParsing).
IsBlankNoTrim(fields, field) ==
    \/ field \notin DOMAIN fields
    \/ fields[field] = <<>>

\* !fields[field] || fields[field].trim() === ''
IsBlank(fields, field) ==
    \/ field \notin DOMAIN fields
    \/ fields[field] = <<>>
    \/ trim(fields[field]) = <<>>

\* Variant of MissingFields that lists the last required field first.
MissingFieldsReversed(fields) ==
    LET listed == SelectSeq(requiredFields, LAMBDA f : IsBlank(fields, f))
    IN  [i \in 1..Len(listed) |-> listed[Len(listed) + 1 - i]]

\* requiredFields.filter(...)
MissingFields(fields) == SelectSeq(requiredFields, LAMBDA f : IsBlank(fields, f))

\* Variant of ResolveConnectionString that falls back to the development
\* store when it finds no connection string.
ResolveConnectionStringDefault(environment, file) ==
    IF environment # "" THEN [value |-> environment, threw |-> ""]
    ELSE [value |-> ValidConnection, threw |-> ""]

\* Lines 343-353: the connection string and, when reading the settings file
\* throws, the message of the exception.
ResolveConnectionString(environment, file) ==
    IF environment # "" THEN [value |-> environment, threw |-> ""]
    ELSE IF ~file.exists THEN [value |-> "", threw |-> ""]
    ELSE IF ~file.json
    THEN [value |-> "", threw |-> "Unexpected token in JSON"]
    ELSE IF "AzureWebJobsStorage" \in DOMAIN file.Values
    THEN [value |-> file.Values["AzureWebJobsStorage"], threw |-> ""]
    ELSE [value |-> "", threw |-> ""]

\* BlobServiceClient.fromConnectionString throws on a string it cannot read.
ConnectionStringInvalid(cs) == cs # ValidConnection

\* Variant of FullAfterBody that validates the required fields before the
\* file extension.
FullAfterBodyFieldsFirst(b, environment, file) ==
    LET parts == b.parts
        at == FindFilePart(parts)
        filePart == IF at = 0 THEN NoPart ELSE parts[at]
        fields == CollectFields(parts)
        missingFields == MissingFields(fields)
        conn == ResolveConnectionString(environment, file)
        readSettings == IF environment = "" /\ file.exists
                        THEN <<Call("readFileSync")>> ELSE <<>>
        loc0 == [NoLocals EXCEPT !.parts = parts]
        loc1 == [loc0 EXCEPT !.filePart = filePart]
        loc2 == [loc1 EXCEPT !.fields = fields]
        loc3 == [loc2 EXCEPT !.connectionString = conn.value]
    IN  IF b.parseError # ""
        THEN Step(FailureWithDetails(400, "Failed to parse multipart data", b.parseError),
                  <<Call("Parse")>>, NoLocals, "done")
        ELSE IF at = 0
        THEN Step(Failure(400, "No file uploaded"), <<Call("Parse")>>, loc0, "done")
        ELSE IF missingFields # <<>>
        THEN Step([status |-> 400,
                   jsonBody |-> [success |-> FALSE, error |-> "Missing required fields",
                                 missingFields |-> missingFields]],
                  <<Call("Parse")>>, loc2, "done")
        ELSE IF ~isExcelFile(filePart.filename)
        THEN Step(Failure(400, "Invalid file type. Only .xlsx and .xls files are allowed."),
                  <<Call("Parse")>>, loc1, "done")
        ELSE IF conn.threw # ""
        THEN Step(InternalServerError(conn.threw),
                  <<Call("Parse")>> \o readSettings, loc2, "done")
        ELSE IF conn.value = ""
        THEN Step(Failure(500, "Azure Storage configuration not found"),
                  <<Call("Parse")>> \o readSettings, loc3, "done")
        ELSE IF ConnectionStringInvalid(conn.value)
        THEN Step(InternalServerError("Invalid connection string"),
                  <<Call("Parse")>> \o readSettings \o <<Call("fromConnectionString")>>,
                  loc3, "done")
        ELSE Step(NoResponse,
                  <<Call("Parse")>> \o readSettings
                    \o <<Call("fromConnectionString"),
                         [op |-> "createIfNotExists", container |-> containerName,
                          access |-> "blob"]>>,
                  loc3, "createContainer")

\* From the body's arrival to `await containerClient.createIfNotExists()`.
FullAfterBody(b, environment, file) ==
    LET parts == b.parts
        at == FindFilePart(parts)
        filePart == IF at = 0 THEN NoPart ELSE parts[at]
        fields == CollectFields(parts)
        missingFields == MissingFields(fields)
        conn == ResolveConnectionString(environment, file)
        readSettings == IF environment = "" /\ file.exists
                        THEN <<Call("readFileSync")>> ELSE <<>>
        loc0 == [NoLocals EXCEPT !.parts = parts]
        loc1 == [loc0 EXCEPT !.filePart = filePart]
        loc2 == [loc1 EXCEPT !.fields = fields]
        loc3 == [loc2 EXCEPT !.connectionString = conn.value]
    IN  IF b.parseError # ""
        THEN Step(FailureWithDetails(400, "Failed to parse multipart data", b.parseError),
                  <<Call("Parse")>>, NoLocals, "done")
        ELSE IF at = 0
        THEN Step(Failure(400, "No file uploaded"), <<Call("Parse")>>, loc0, "done")
        ELSE IF ~isExcelFile(filePart.filename)
        THEN Step(Failure(400, "Invalid file type. Only .xlsx and .xls files are allowed."),
                  <<Call("Parse")>>, loc1, "done")
        ELSE IF missingFields # <<>>
        THEN Step([status |-> 400,
                   jsonBody |-> [success |-> FALSE, error |-> "Missing required fields",
                                 missingFields |-> missingFields]],
                  <<Call("Parse")>>, loc2, "done")
        ELSE IF conn.threw # ""
        THEN Step(InternalServerError(conn.threw),
                  <<Call("Parse")>> \o readSettings, loc2, "done")
        ELSE IF conn.value = ""
        THEN Step(Failure(500, "Azure Storage configuration not found"),
                  <<Call("Parse")>> \o readSettings, loc3, "done")
        ELSE IF ConnectionStringInvalid(conn.value)
        THEN Step(InternalServerError("Invalid connection string"),
                  <<Call("Parse")>> \o readSettings \o <<Call("fromConnectionString")>>,
                  loc3, "done")
        ELSE Step(NoResponse,
                  <<Call("Parse")>> \o readSettings
                    \o <<Call("fromConnectionString"),
                         [op |-> "createIfNotExists", container |-> containerName,
                          access |-> "blob"]>>,
                  loc3, "createContainer")

\* Variant of UniqueFilename without the timestamp.
UniqueFilenameNoTimestamp(company, t, filename) ==
    company \o <<".">> \o SplitPop(filename)

\* `${fields.company}_${timestamp}.${fileExtension}`
UniqueFilename(company, t, filename) ==
    company \o <<"_">> \o ReplaceColonDot(toISOString(t)) \o <<".">> \o SplitPop(filename)

\* Variant of FileContentType that looks the extension up as it was written.
FileContentTypeCaseSensitive(filename) ==
    LET ext == SplitPop(filename)
    IN  CASE ext = <<"x", "l", "s", "x">>
               -> "application/vnd.openxmlformats-officedocument.spreadsheetml.sheet"
          [] ext = <<"x", "l", "s">> -> "application/vnd.ms-excel"
          [] OTHER -> "application/octet-stream"

\* contentTypeMap[fileExtension.toLowerCase()] || 'application/octet-stream'
FileContentType(filename) ==
    LET ext == toLowerCase(SplitPop(filename))
    IN  CASE ext = <<"x", "l", "s", "x">>
               -> "application/vnd.openxmlformats-officedocument.spreadsheetml.sheet"
          [] ext = <<"x", "l", "s">> -> "application/vnd.ms-excel"
          [] OTHER -> "application/octet-stream"

\* Variant of BlobMetadata that leaves the fields out.
BlobMetadataWithoutFields(filePart, fields, t) ==
    [originalFilename |-> filePart.filename, uploadedAt |-> toISOString(t)]

\* { originalFilename, uploadedAt, ...fields }: a field of the same name
\* replaces the handler's entry.
BlobMetadata(filePart, fields, t) ==
    [k \in {"originalFilename", "uploadedAt"} \cup DOMAIN fields |->
        IF k \in DOMAIN fields THEN fields[k]
        ELSE IF k = "originalFilename" THEN filePart.filename
        ELSE toISOString(t)]

\* The arguments of blockBlobClient.uploadData.
UploadCall(key, filePart, blobContentType, metadata) ==
    [op |-> "uploadData", container |-> containerName, key |-> key,
     data |-> filePart.data, blobContentType |-> blobContentType,
     metadata |-> metadata]

\* From the container's creation to `await blockBlobClient.uploadData(...)`.
FullAfterCreate(loc, t) ==
    LET uniqueFilename == UniqueFilename(loc.fields["company"], t, loc.filePart.filename)
    IN  Step(NoResponse,
             <<UploadCall(uniqueFilename, loc.filePart,
                          FileContentType(loc.filePart.filename),
                          BlobMetadata(loc.filePart, loc.fields, t))>>,
             [loc EXCEPT !.uniqueFilename = uniqueFilename], "upload")

\* Variant of FullAfterUpload that reports the submitted file name as the
\* name of the stored object.
FullAfterUploadOriginalName(loc, t) ==
    Step([status |-> 200,
          jsonBody |-> [success |-> TRUE,
                        message |-> "File uploaded successfully",
                        fileName |-> loc.filePart.filename,
                        originalFileName |-> loc.filePart.filename,
                        url |-> BlobUrl(containerName, loc.filePart.filename),
                        metadata |-> loc.fields,
                        uploadedAt |-> toISOString(t)]],
         <<>>, loc, "done")

\* From the end of the upload to the handler's return.
FullAfterUpload(loc, t) ==
    Step([status |-> 200,
          jsonBody |-> [success |-> TRUE,
                        message |-> "File uploaded successfully",
                        fileName |-> loc.uniqueFilename,
                        originalFileName |-> loc.filePart.filename,
                        url |-> BlobUrl(containerName, loc.uniqueFilename),
                        metadata |-> loc.fields,
                        uploadedAt |-> toISOString(t)]],
         <<>>, loc, "done")

\* Variant of FullCatch that throws the exception on.
FullCatchRethrow(loc, message) == Step([exception |-> message], <<>>, loc, "done")

\* An exception thrown by an awaited call: the handler's catch answers it.
FullCatch(loc, message) == Step(InternalServerError(message), <<>>, loc, "done")

\* ---------------------------------------------------- handler, index.js 15-66
\* An exception that leaves the handler: it returns no response of its own.
Thrown(message) == [exception |-> message]

BasicFailure(code, text) == [status |-> code, body |-> text]

\* catch (uploadErr)
BasicUploadFailure(message) ==
    [status |-> 500, body |-> [error |-> "Failed to upload file", details |-> message]]

BasicEntry(headers) ==
    LET contentType == HeadersGet(headers, "content-type")
        boundary == getBoundary(contentType)
    IN  IF ~TruthyHeader(contentType)
        THEN Step(BasicFailure(400, "Missing content-type header"), <<>>, NoLocals, "done")
        ELSE IF boundary = ""
        THEN Step(BasicFailure(400, "Malformed content-type header: boundary not found"),
                  <<>>, NoLocals, "done")
        ELSE Step(NoResponse, <<Call("arrayBuffer")>>, NoLocals, "readBody")

\* fields[part.name] for every part without a filename; a part without a name
\* lands under the key 'undefined'.
BasicCollectFields(parts) ==
    LET idx == {i \in 1..Len(parts) : ~HasFilename(parts[i])}
        key(i) == IF "name" \in DOMAIN parts[i] THEN parts[i].name ELSE "undefined"
        last(n) == CHOOSE i \in idx :
                      /\ key(i) = n
                      /\ \A j \in idx : key(j) = n => j <= i
    IN  [n \in {key(i) : i \in idx} |-> toString(parts[last(n)].data)]

BasicAfterBody(b, environment) ==
    LET parts == b.parts
        at == FindFilePart(parts)
        loc0 == [NoLocals EXCEPT !.parts = parts]
        loc1 == [loc0 EXCEPT !.filePart = parts[at]]
        loc2 == [loc1 EXCEPT !.fields = BasicCollectFields(parts)]
        loc3 == [loc2 EXCEPT !.connectionString = environment]
    IN  IF b.parseError # ""
        THEN Step(Thrown(b.parseError), <<Call("Parse")>>, NoLocals, "done")
        ELSE IF at = 0
        THEN Step(BasicFailure(400, "No file uploaded"), <<Call("Parse")>>, loc0, "done")
        ELSE IF ConnectionStringInvalid(environment)
        THEN Step(BasicUploadFailure("Invalid connection string"),
                  <<Call("Parse"), Call("fromConnectionString")>>, loc3, "done")
        ELSE Step(NoResponse,
                  <<Call("Parse"), Call("fromConnectionString"),
                    [op |-> "createIfNotExists", container |-> containerName]>>,
                  loc3, "createContainer")

BasicAfterCreate(loc) ==
    Step(NoResponse,
         <<UploadCall(loc.filePart.filename, loc.filePart,
                      IF "type" \in DOMAIN loc.filePart /\ loc.filePart.type # ""
                      THEN loc.filePart.type ELSE "application/octet-stream",
                      <<>>)>>,
         [loc EXCEPT !.uniqueFilename = loc.filePart.filename], "upload")

BasicAfterUpload(loc) ==
    Step([status |-> 200,
          body |-> [message |-> "File uploaded successfully",
                    fileName |-> loc.filePart.filename,
                    url |-> BlobUrl(containerName, loc.filePart.filename),
                    metadata |-> loc.fields]],
         <<>>, loc, "done")

BasicCatch(loc, message) == Step(BasicUploadFailure(message), <<>>, loc, "done")

\* ------------------------------------------------------------------- state
VARIABLES
    env,         \* process.env.AzureWebJobsStorage
    settings,    \* local.settings.json
    now,         \* the wall clock
    containers,  \* the containers of the storage account
    blobs,       \* the blobs of container 'upload', by key
    pc,          \* per request: where its handler stands
    handler,     \* per request: the registration that serves it
    headers,     \* per request: the request's headers
    body,        \* per request: the body, once request.arrayBuffer() delivered it
    locals,      \* per request: the handler's local variables
    calls,       \* per request: the calls the handler made, in order
    faults,      \* per request: the awaited calls that rejected, in order
    response     \* per request: what the handler returned

vars ==
    <<env, settings, now, containers, blobs, pc, handler, headers, body, locals,
      calls, faults, response>>

Handlers == {"full", "basic"}

NoBody == [pending |-> TRUE]

InitRequests ==
    /\ now = 0
    /\ containers = {}
    /\ blobs = <<>>
    /\ pc = [r \in Reqs |-> "idle"]
    /\ handler = [r \in Reqs |-> ""]
    /\ headers = [r \in Reqs |-> <<>>]
    /\ body = [r \in Reqs |-> NoBody]
    /\ locals = [r \in Reqs |-> NoLocals]
    /\ calls = [r \in Reqs |-> <<>>]
    /\ faults = [r \in Reqs |-> <<>>]
    /\ response = [r \in Reqs |-> NoResponse]

Init ==
    /\ env \in EnvValues
    /\ settings \in SettingsFiles
    /\ InitRequests

\* Variant of Take with `fields` kept in one object for all requests.
TakeShared(r, out) ==
    /\ pc' = [pc EXCEPT ![r] = out.pc]
    /\ locals' = [q \in Reqs |->
                    IF q = r THEN out.locals
                    ELSE IF out.locals.fields = <<>> THEN locals[q]
                    ELSE [locals[q] EXCEPT !.fields = out.locals.fields]]
    /\ calls' = [calls EXCEPT ![r] = @ \o out.calls]
    /\ response' = [response EXCEPT ![r] = out.response]

\* The handler of request r takes the step `out`.
Take(r, out) ==
    /\ pc' = [pc EXCEPT ![r] = out.pc]
    /\ locals' = [locals EXCEPT ![r] = out.locals]
    /\ calls' = [calls EXCEPT ![r] = @ \o out.calls]
    /\ response' = [response EXCEPT ![r] = out.response]

\* The blob that an uploadData call writes.
BlobOf(call) ==
    [container |-> call.container, data |-> call.data,
     blobContentType |-> call.blobContentType, metadata |-> call.metadata]

\* Variant of Write that leaves a blob alone that is there already.
WriteIfAbsent(store, call) ==
    [k \in DOMAIN store \cup {call.key} |->
        IF k \in DOMAIN store THEN store[k] ELSE BlobOf(call)]

\* The store after uploadData(call): the blob replaces any blob of that key.
Write(store, call) ==
    [k \in DOMAIN store \cup {call.key} |->
        IF k = call.key THEN BlobOf(call) ELSE store[k]]

\* The last call of request r.
LastCall(r) == calls[r][Len(calls[r])]

\* A request arrives at registration h with headers hd.
Receive(r, h, hd) ==
    /\ pc[r] = "idle"
    /\ handler' = [handler EXCEPT ![r] = h]
    /\ headers' = [headers EXCEPT ![r] = hd]
    /\ Take(r, IF h = "full" THEN FullEntry(hd) ELSE BasicEntry(hd))
    /\ UNCHANGED <<env, settings, now, containers, blobs, body, faults>>

\* request.arrayBuffer() resolves with body b.
BodyRead(r, b) ==
    /\ pc[r] = "readBody"
    /\ body' = [body EXCEPT ![r] = b]
    /\ Take(r, IF handler[r] = "full"
               THEN FullAfterBody(b, env, settings)
               ELSE BasicAfterBody(b, env))
    /\ UNCHANGED <<env, settings, now, containers, blobs, handler, headers, faults>>

\* Variant of BodyReadFailed where the rejection leaves either handler.
BodyReadFailedEscapes(r) ==
    /\ pc[r] = "readBody"
    /\ Take(r, Step(Thrown("Request aborted"), <<>>, locals[r], "done"))
    /\ faults' = [faults EXCEPT ![r] = Append(@, "arrayBuffer")]
    /\ UNCHANGED <<env, settings, now, containers, blobs, handler, headers, body>>

\* request.arrayBuffer() rejects: the full handler catches, the basic one
\* lets the exception out.
BodyReadFailed(r) ==
    /\ pc[r] = "readBody"
    /\ Take(r, IF handler[r] = "full"
               THEN FullCatch(locals[r], "Request aborted")
               ELSE Step(Thrown("Request aborted"), <<>>, locals[r], "done"))
    /\ faults' = [faults EXCEPT ![r] = Append(@, "arrayBuffer")]
    /\ UNCHANGED <<env, settings, now, containers, blobs, handler, headers, body>>

\* Variant of ContainerCreated with a plain create: it fails the request when
\* the container is there already.
ContainerCreatedOnce(r) ==
    /\ pc[r] = "createContainer"
    /\ containers' = containers \cup {LastCall(r).container}
    /\ Take(r, IF LastCall(r).container \in containers
               THEN IF handler[r] = "full"
                    THEN FullCatch(locals[r], "ContainerAlreadyExists")
                    ELSE BasicCatch(locals[r], "ContainerAlreadyExists")
               ELSE IF handler[r] = "full"
                    THEN FullAfterCreate(locals[r], now)
                    ELSE BasicAfterCreate(locals[r]))
    /\ UNCHANGED <<env, settings, now, blobs, handler, headers, body, faults>>

\* containerClient.createIfNotExists() resolves.
ContainerCreated(r) ==
    /\ pc[r] = "createContainer"
    /\ containers' = containers \cup {LastCall(r).container}
    /\ Take(r, IF handler[r] = "full"
               THEN FullAfterCreate(locals[r], now)
               ELSE BasicAfterCreate(locals[r]))
    /\ UNCHANGED <<env, settings, now, blobs, handler, headers, body, faults>>

\* Variant of ContainerCreateFailed in which the handler goes on to upload.
ContainerCreateFailedIgnored(r) ==
    /\ pc[r] = "createContainer"
    /\ Take(r, IF handler[r] = "full"
               THEN FullAfterCreate(locals[r], now)
               ELSE BasicAfterCreate(locals[r]))
    /\ faults' = [faults EXCEPT ![r] = Append(@, "createIfNotExists")]
    /\ UNCHANGED <<env, settings, now, containers, blobs, handler, headers, body>>

\* containerClient.createIfNotExists() rejects.
ContainerCreateFailed(r) ==
    /\ pc[r] = "createContainer"
    /\ Take(r, IF handler[r] = "full"
               THEN FullCatch(locals[r], "Service unavailable")
               ELSE BasicCatch(locals[r], "Service unavailable"))
    /\ faults' = [faults EXCEPT ![r] = Append(@, "createIfNotExists")]
    /\ UNCHANGED <<env, settings, now, containers, blobs, handler, headers, body>>

\* blockBlobClient.uploadData(...) resolves: the blob is in the store.
Uploaded(r) ==
    /\ pc[r] = "upload"
    /\ LastCall(r).container \in containers
    /\ blobs' = Write(blobs, LastCall(r))
    /\ Take(r, IF handler[r] = "full"
               THEN FullAfterUpload(locals[r], now)
               ELSE BasicAfterUpload(locals[r]))
    /\ UNCHANGED <<env, settings, now, containers, handler, headers, body, faults>>

\* Variant of UploadFailed in which the handler removes what the failed
\* upload wrote.
UploadFailedCleanedUp(r, persisted) ==
    /\ pc[r] = "upload"
    /\ persisted => LastCall(r).container \in containers
    /\ blobs' = blobs
    /\ Take(r, IF handler[r] = "full"
               THEN FullCatch(locals[r], "Upload failed: connection reset")
               ELSE BasicCatch(locals[r], "Upload failed: connection reset"))
    /\ faults' = [faults EXCEPT ![r] =
                     Append(@, IF persisted THEN "uploadData after write" ELSE "uploadData")]
    /\ UNCHANGED <<env, settings, now, containers, handler, headers, body>>

\* Variant of UploadFailed in which the handler issues the upload once more.
UploadFailedRetried(r, persisted) ==
    /\ pc[r] = "upload"
    /\ persisted => LastCall(r).container \in containers
    /\ blobs' = IF persisted THEN Write(blobs, LastCall(r)) ELSE blobs
    /\ Take(r, Step(NoResponse, <<LastCall(r)>>, locals[r], "upload"))
    /\ faults' = [faults EXCEPT ![r] =
                     Append(@, IF persisted THEN "uploadData after write" ELSE "uploadData")]
    /\ UNCHANGED <<env, settings, now, containers, handler, headers, body>>

\* blockBlobClient.uploadData(...) rejects, before the store took the blob or
\* (persisted) after it did.
UploadFailed(r, persisted) ==
    /\ pc[r] = "upload"
    /\ persisted => LastCall(r).container \in containers
    /\ blobs' = IF persisted THEN Write(blobs, LastCall(r)) ELSE blobs
    /\ Take(r, IF handler[r] = "full"
               THEN FullCatch(locals[r], "Upload failed: connection reset")
               ELSE BasicCatch(locals[r], "Upload failed: connection reset"))
    /\ faults' = [faults EXCEPT ![r] =
                     Append(@, IF persisted THEN "uploadData after write" ELSE "uploadData")]
    /\ UNCHANGED <<env, settings, now, containers, handler, headers, body>>

\* A millisecond passes.
Tick ==
    /\ now < MaxClock
    /\ now' = now + 1
    /\ UNCHANGED <<env, settings, containers, blobs, pc, handler, headers, body,
                   locals, calls, faults, response>>

\* One request, over all modelled inputs.
Next ==
    \/ \E h \in Handlers, hd \in HeaderSets : Receive(1, h, hd)
    \/ \E b \in Bodies : BodyRead(1, b)
    \/ BodyReadFailed(1)
    \/ ContainerCreated(1)
    \/ ContainerCreateFailed(1)
    \/ Uploaded(1)
    \/ \E persisted \in BOOLEAN : UploadFailed(1, persisted)
    \/ Tick

Spec == Init /\ [][Next]_vars

\* An awaited call of request r resolves or rejects.
Returns(r) ==
    \/ pc[r] = "readBody" /\ \E b \in Bodies : BodyRead(r, b)
    \/ BodyReadFailed(r)
    \/ ContainerCreated(r)
    \/ ContainerCreateFailed(r)
    \/ Uploaded(r)
    \/ \E persisted \in BOOLEAN : UploadFailed(r, persisted)

\* Spec, with every awaited call of the request returning in the end.
SpecLive == Init /\ [][Next]_vars /\ WF_vars(Returns(1))

\* Requests in flight together, over a few inputs: two valid submissions that
\* differ in the company, and one that lacks a required field.
ConcHeaders ==
    { <<>>,
      ("content-type" :>
         "multipart/form-data; boundary=----WebKitFormBoundary7MA4YWxkTrZu0gW") }

ConcBodies ==
    { [parts |-> ps, parseError |-> ""] :
        ps \in { AllFields \o FileParts(<<GoodName>>),
                 FieldParts({}, "company", <<"B">>) \o FileParts(<<GoodName>>),
                 FieldParts({"unit"}, "", <<>>) \o FileParts(<<GoodName>>) } }

InitConc ==
    /\ env \in {"", ValidConnection}
    /\ settings = [exists |-> FALSE]
    /\ InitRequests

\* Requests are numbered in the order in which they arrive, and all of them
\* reach the one registration of 'storage' that the deployment loaded.
NextConc ==
    \/ \E r \in Reqs, h \in Handlers, hd \in ConcHeaders :
          /\ \A q \in 1..(r - 1) : pc[q] # "idle" /\ handler[q] = h
          /\ Receive(r, h, hd)
    \/ \E r \in Reqs, b \in ConcBodies : BodyRead(r, b)
    \/ \E r \in Reqs : BodyReadFailed(r)
    \/ \E r \in Reqs : ContainerCreated(r)
    \/ \E r \in Reqs : ContainerCreateFailed(r)
    \/ \E r \in Reqs : Uploaded(r)
    \/ \E r \in Reqs, persisted \in BOOLEAN : UploadFailed(r, persisted)
    \/ Tick

SpecConc == InitConc /\ [][NextConc]_vars

\* Requests to the handler of _index.js in flight together that submit files
\* of one name: two for one company that differ in the bytes of the file
\* alone, and one for another company.
SameKeyBodies ==
    { [parts |-> ps, parseError |-> ""] :
        ps \in { AllFields \o <<FilePart(GoodName, FileBytes(1))>>,
                 AllFields \o <<FilePart(GoodName, FileBytes(2))>>,
                 FieldParts({}, "company", <<"B">>) \o FileParts(<<GoodName>>) } }

InitSameKey ==
    /\ env = ValidConnection
    /\ settings = [exists |-> FALSE]
    /\ InitRequests

NextSameKey ==
    \/ \E r \in Reqs :
          /\ \A q \in 1..(r - 1) : pc[q] # "idle"
          /\ Receive(r, "full",
                     ("content-type" :>
                        "multipart/form-data; boundary=----WebKitFormBoundary7MA4YWxkTrZu0gW"))
    \/ \E r \in Reqs, b \in SameKeyBodies : BodyRead(r, b)
    \/ \E r \in Reqs : BodyReadFailed(r)
    \/ \E r \in Reqs : ContainerCreated(r)
    \/ \E r \in Reqs : ContainerCreateFailed(r)
    \/ \E r \in Reqs : Uploaded(r)
    \/ \E r \in Reqs, persisted \in BOOLEAN : UploadFailed(r, persisted)
    \/ Tick

SpecSameKey == InitSameKey /\ [][NextSameKey]_vars

\* ------------------------------------------------------------ observations
Arrived(r) == pc[r] # "idle"
Answered(r) == pc[r] = "done"
BodyArrived(r) == "pending" \notin DOMAIN body[r]
Parsed(r) == BodyArrived(r) /\ body[r].parseError = ""

StatusOf(resp) == IF "status" \in DOMAIN resp THEN resp.status ELSE -1

\* The error text of a response, wherever the registration puts it.
ErrorText(resp) ==
    IF "jsonBody" \in DOMAIN resp
    THEN IF "error" \in DOMAIN resp.jsonBody THEN resp.jsonBody.error ELSE ""
    ELSE IF StatusOf(resp) = 400 THEN resp.body
    ELSE IF StatusOf(resp) = 500 THEN resp.body.error
    ELSE ""

\* A JSON response of the given status with success = false and the error.
JsonFailure(resp, code, message) ==
    /\ StatusOf(resp) = code
    /\ "jsonBody" \in DOMAIN resp
    /\ resp.jsonBody.success = FALSE
    /\ resp.jsonBody.error = message

\* The positions of request r's calls of the given name.
CallsOf(r, name) == {i \in 1..Len(calls[r]) : calls[r][i].op = name}

NoStoreCall(r) ==
    CallsOf(r, "createIfNotExists") = {} /\ CallsOf(r, "uploadData") = {}

HasContentType(r) == "content-type" \in DOMAIN headers[r]

\* A part that carries a file name.
NamesAFile(part) == "filename" \in DOMAIN part /\ part.filename # <<>>

\* The parts of request r's body that carry a file name.
FilesOf(r) == {i \in 1..Len(body[r].parts) : NamesAFile(body[r].parts[i])}

\* A part that is a named form field.
IsNamedField(part) ==
    /\ ~NamesAFile(part)
    /\ "name" \in DOMAIN part
    /\ part.name # ""

\* The named form fields of request r's body.
NamedFieldsOf(r) == {i \in 1..Len(body[r].parts) : IsNamedField(body[r].parts[i])}

\* Part i of request r is a named form field with the name of part j.
Renames(r, i, j) ==
    IsNamedField(body[r].parts[i]) /\ body[r].parts[i].name = body[r].parts[j].name

NoDuplicateNames(r) ==
    \A j \in 1..Len(body[r].parts) :
        IsNamedField(body[r].parts[j]) =>
            \A i \in (j + 1)..Len(body[r].parts) : ~Renames(r, i, j)

\* Text made of white space only (the empty text included).
Blank(text) == \A i \in 1..Len(text) : text[i] \in WhiteSpace

\* Data that is the UTF-8 encoding of a text.
WellFormed(data) == \A i \in 1..Len(data) : data[i] # "\\xFF"

\* The names ending in .xlsx or .xls, in any letter case.
AcceptedSuffixes ==
    { <<".", a, b, c, d>> : a \in {"x", "X"}, b \in {"l", "L"}, c \in {"s", "S"},
                            d \in {"x", "X"} }
    \cup { <<".", a, b, c>> : a \in {"x", "X"}, b \in {"l", "L"}, c \in {"s", "S"} }

Accepted(filename) ==
    \E sfx \in AcceptedSuffixes :
        /\ Len(filename) >= Len(sfx)
        /\ \A i \in 1..Len(sfx) : filename[Len(filename) - Len(sfx) + i] = sfx[i]

\* The required fields that request r's body lacks: no part of that name, or
\* only blank text under it.
Lacking(r) ==
    {f \in RequiredSet :
        \A i \in 1..Len(body[r].parts) :
            (IsNamedField(body[r].parts[i]) /\ body[r].parts[i].name = f) =>
                Blank(body[r].parts[i].data)}

\* A request that passes every check on its content: a boundary, a body that
\* parses, exactly one file of an accepted name, every required field filled.
ValidRequest(r) ==
    /\ HasContentType(r)
    /\ getBoundary(HeadersGet(headers[r], "content-type")) # ""
    /\ Parsed(r)
    /\ Cardinality(FilesOf(r)) = 1
    /\ \A i \in FilesOf(r) : Accepted(body[r].parts[i].filename)
    /\ NoDuplicateNames(r)
    /\ Lacking(r) = {}

\* ------------------------------------------------------------------ claims
\* C1 (as stated): every request without a content-type header is answered
\* 400 with success = false and the error 'Missing content-type header', and
\* its body is never read, parsed or uploaded.  The registration of
\* src/api/index.js answers with a plain text body that has no success flag.
C1_MissingContentTypeAnswer ==
    \A r \in Reqs :
        (Arrived(r) /\ ~HasContentType(r)) =>
            /\ Answered(r)
            /\ JsonFailure(response[r], 400, "Missing content-type header")
            /\ calls[r] = <<>>

\* C1, for the handler of _index.js alone: there the statement holds.
C1_FullHandlerAnswer ==
    \A r \in Reqs :
        (handler[r] = "full" /\ ~HasContentType(r)) =>
            /\ Answered(r)
            /\ JsonFailure(response[r], 400, "Missing content-type header")
            /\ calls[r] = <<>>

\* C2 (as stated): a request whose content-type header is present but yields
\* no boundary is answered 400 'boundary not found', and nothing is parsed or
\* uploaded.
C2_BoundaryNotFoundAsStated ==
    \A r \in Reqs :
        (Arrived(r) /\ HasContentType(r)
                    /\ getBoundary(HeadersGet(headers[r], "content-type")) = "") =>
            /\ Answered(r)
            /\ StatusOf(response[r]) = 400
            /\ ErrorText(response[r]) = "Malformed content-type header: boundary not found"
            /\ calls[r] = <<>>

\* C2 (amended): a request whose content-type header is present with a
\* non-empty value that yields no boundary is answered 400 'boundary not
\* found'; a content-type header with an empty value is answered 400 'Missing
\* content-type header'.  In both cases nothing is read, parsed or uploaded.
C2_BoundaryNotFound ==
    \A r \in Reqs :
        (Arrived(r) /\ HasContentType(r)
                    /\ getBoundary(HeadersGet(headers[r], "content-type")) = "") =>
            /\ Answered(r)
            /\ StatusOf(response[r]) = 400
            /\ ErrorText(response[r]) =
                  IF headers[r]["content-type"] = ""
                  THEN "Missing content-type header"
                  ELSE "Malformed content-type header: boundary not found"
            /\ calls[r] = <<>>

C2_Witness ==
    \E r \in Reqs :
        /\ HasContentType(r)
        /\ headers[r]["content-type"] = "multipart/form-data"
        /\ handler[r] = "full"
        /\ Answered(r)
        /\ StatusOf(response[r]) = 400

\* C3: a body that parses and holds no part with a file name is answered 400
\* 'No file uploaded', and no call to the blob store is made.
C3_NoFileUploaded ==
    \A r \in Reqs :
        (Parsed(r) /\ FilesOf(r) = {}) =>
            /\ Answered(r)
            /\ StatusOf(response[r]) = 400
            /\ ErrorText(response[r]) = "No file uploaded"
            /\ NoStoreCall(r)

C3_Witness ==
    \E r \in Reqs :
        /\ Parsed(r)
        /\ FilesOf(r) = {}
        /\ Len(body[r].parts) > Len(requiredFields)
        /\ Answered(r)
        /\ StatusOf(response[r]) = 400

\* C4: when the file that the handler of _index.js selected has a name that
\* does not end in .xlsx or .xls (in any letter case), the answer is 400
\* 'Invalid file type' and no upload call is made.
C4_InvalidFileType ==
    \A r \in Reqs :
        (handler[r] = "full" /\ Parsed(r) /\ FilesOf(r) # {}
            /\ ~Accepted(locals[r].filePart.filename)) =>
            /\ Answered(r)
            /\ JsonFailure(response[r], 400,
                           "Invalid file type. Only .xlsx and .xls files are allowed.")
            /\ CallsOf(r, "uploadData") = {}

C4_Witness ==
    \E r \in Reqs :
        /\ handler[r] = "full"
        /\ Parsed(r)
        /\ FilesOf(r) # {}
        /\ locals[r].filePart.filename = <<"r", ".", "x", "l", "s", ".", "t", "x", "t">>
        /\ Lacking(r) = {}
        /\ Answered(r)
        /\ StatusOf(response[r]) = 400

\* C5: a request to the handler of _index.js that passes the earlier checks
\* (content type, parse, a file of an accepted name) and lacks required fields
\* is answered 400 with a missingFields list that holds exactly the lacking
\* names, each once, and no upload call is made.
C5_MissingFieldsListed ==
    \A r \in Reqs :
        (handler[r] = "full" /\ Parsed(r) /\ FilesOf(r) # {}
            /\ Accepted(locals[r].filePart.filename)
            /\ NoDuplicateNames(r) /\ Lacking(r) # {}) =>
            /\ Answered(r)
            /\ JsonFailure(response[r], 400, "Missing required fields")
            /\ "missingFields" \in DOMAIN response[r].jsonBody
            /\ LET listed == response[r].jsonBody.missingFields
               IN  /\ {listed[i] : i \in 1..Len(listed)} = Lacking(r)
                   /\ Len(listed) = Cardinality(Lacking(r))
            /\ CallsOf(r, "uploadData") = {}

C5_Witness ==
    \E r \in Reqs :
        /\ handler[r] = "full"
        /\ Parsed(r)
        /\ FilesOf(r) # {}
        /\ Accepted(locals[r].filePart.filename)
        /\ Cardinality(Lacking(r)) = 2
        /\ \E i \in NamedFieldsOf(r) : body[r].parts[i].data = <<" ">>
        /\ Answered(r)
        /\ "jsonBody" \in DOMAIN response[r]
        /\ "missingFields" \in DOMAIN response[r].jsonBody

\* The connection string that the environment offers: the process environment
\* first, then the settings file.
Credential ==
    IF env # "" THEN env
    ELSE IF settings.exists /\ settings.json
            /\ "AzureWebJobsStorage" \in DOMAIN settings.Values
    THEN settings.Values["AzureWebJobsStorage"]
    ELSE ""

\* The upload call of request r (the handlers make at most one).
UploadOf(r) == calls[r][CHOOSE i \in CallsOf(r, "uploadData") : TRUE]

\* The named fields of request r that no later part of the same name replaces.
FinalFieldsOf(r) ==
    {j \in 1..Len(body[r].parts) :
        /\ IsNamedField(body[r].parts[j])
        /\ \A i \in (j + 1)..Len(body[r].parts) : ~Renames(r, i, j)}

\* C6: a valid request to the handler of _index.js, with a valid storage
\* credential and no call rejecting, makes exactly one upload call that
\* carries the file part's bytes and every field of the metadata map, and is
\* answered 200 with success = true and that same map.
C6_ValidUpload ==
    \A r \in Reqs :
        (handler[r] = "full" /\ Answered(r) /\ ValidRequest(r)
            /\ Credential = ValidConnection /\ faults[r] = <<>>) =>
            /\ Cardinality(CallsOf(r, "uploadData")) = 1
            /\ \A i \in FilesOf(r) : UploadOf(r).data = body[r].parts[i].data
            /\ StatusOf(response[r]) = 200
            /\ response[r].jsonBody.success = TRUE
            /\ DOMAIN response[r].jsonBody.metadata =
                  {body[r].parts[i].name : i \in NamedFieldsOf(r)}
            /\ \A i \in NamedFieldsOf(r) :
                  LET n == body[r].parts[i].name
                  IN  /\ n \in DOMAIN UploadOf(r).metadata
                      /\ UploadOf(r).metadata[n] = response[r].jsonBody.metadata[n]
                      /\ WellFormed(body[r].parts[i].data) =>
                            UploadOf(r).metadata[n] = body[r].parts[i].data

C6_Witness ==
    \E r \in Reqs :
        /\ handler[r] = "full"
        /\ Answered(r)
        /\ ValidRequest(r)
        /\ Credential = ValidConnection
        /\ faults[r] = <<>>
        /\ \E i \in FilesOf(r) : body[r].parts[i].filename = GoodName
        /\ StatusOf(response[r]) = 200

\* C7: on a 200 answer of the handler of _index.js, the text submitted under
\* each field name (of the last part of that name) is in the answer's
\* metadata under that name, character for character.
C7_MetadataRoundTrip ==
    \A r \in Reqs :
        (handler[r] = "full" /\ StatusOf(response[r]) = 200) =>
            \A i \in FinalFieldsOf(r) :
                WellFormed(body[r].parts[i].data) =>
                    /\ body[r].parts[i].name \in DOMAIN response[r].jsonBody.metadata
                    /\ response[r].jsonBody.metadata[body[r].parts[i].name]
                          = body[r].parts[i].data

C7_Witness ==
    \E r \in Reqs :
        /\ handler[r] = "full"
        /\ StatusOf(response[r]) = 200
        /\ \E i \in FinalFieldsOf(r) : body[r].parts[i].data = <<" ", "a", "\t">>

\* The handler's own timestamp of request r's upload (line 396), taken in the
\* same step as the timestamp of the key (line 377).
UploadedAt(r) == UploadOf(r).metadata["uploadedAt"]

\* C8: two submissions of the same file and metadata to the handler of
\* _index.js that are separated in time (their uploads are stamped with
\* different milliseconds) get different keys, and both objects are in the
\* store once both are answered 200.
C8_DistinctKeys ==
    \A r1, r2 \in Reqs :
        (r1 # r2 /\ handler[r1] = "full" /\ handler[r2] = "full"
            /\ StatusOf(response[r1]) = 200 /\ StatusOf(response[r2]) = 200
            /\ body[r1] = body[r2]
            /\ UploadedAt(r1) # UploadedAt(r2)) =>
            /\ UploadOf(r1).key # UploadOf(r2).key
            /\ response[r1].jsonBody.fileName # response[r2].jsonBody.fileName
            /\ {UploadOf(r1).key, UploadOf(r2).key} \subseteq DOMAIN blobs
            /\ Cardinality(DOMAIN blobs) >= 2

C8_Witness ==
    \E r1, r2 \in Reqs :
        /\ r1 # r2
        /\ handler[r1] = "full" /\ handler[r2] = "full"
        /\ StatusOf(response[r1]) = 200 /\ StatusOf(response[r2]) = 200
        /\ body[r1] = body[r2]
        /\ UploadedAt(r1) # UploadedAt(r2)

\* C9 (as stated): when uploadData throws, the answer is 500 with success =
\* false and the thrown message in details.  The registration of
\* src/api/index.js answers 500 with { error, details } and no success flag.
C9_UploadFailureAnswer ==
    \A r \in Reqs :
        (Answered(r) /\ faults[r] # <<>>
            /\ faults[r][Len(faults[r])] \in {"uploadData", "uploadData after write"}) =>
            /\ StatusOf(response[r]) = 500
            /\ "jsonBody" \in DOMAIN response[r]
            /\ response[r].jsonBody.success = FALSE
            /\ response[r].jsonBody.details = "Upload failed: connection reset"

\* C9, for the handler of _index.js alone: there the statement holds.
C9_FullHandlerAnswer ==
    \A r \in Reqs :
        (handler[r] = "full" /\ Answered(r) /\ faults[r] # <<>>
            /\ faults[r][Len(faults[r])] \in {"uploadData", "uploadData after write"}) =>
            /\ JsonFailure(response[r], 500, "Internal server error")
            /\ response[r].jsonBody.details = "Upload failed: connection reset"

\* C10: with a connection string neither in the process environment nor in
\* the settings file, an otherwise valid request to the handler of _index.js
\* is answered 500 with success = false, and neither createIfNotExists nor
\* uploadData is called.
C10_NoCredential ==
    \A r \in Reqs :
        (handler[r] = "full" /\ ValidRequest(r) /\ Credential = "") =>
            /\ Answered(r)
            /\ StatusOf(response[r]) = 500
            /\ response[r].jsonBody.success = FALSE
            /\ NoStoreCall(r)

C10_Witness ==
    \E r \in Reqs :
        /\ handler[r] = "full"
        /\ ValidRequest(r)
        /\ env = ""
        /\ settings.exists
        /\ settings.json
        /\ Credential = ""
        /\ Answered(r)
        /\ StatusOf(response[r]) = 500

\* C11: when multipart.Parse throws on the body, the handler of _index.js
\* answers 400 'Failed to parse multipart data' with the parser's message in
\* details, and no later step runs: no file is selected, no field collected,
\* no connection string resolved, and Parse is the handler's last call.
C11_ParseFailure ==
    \A r \in Reqs :
        (handler[r] = "full" /\ BodyArrived(r) /\ body[r].parseError # "") =>
            /\ Answered(r)
            /\ JsonFailure(response[r], 400, "Failed to parse multipart data")
            /\ "details" \in DOMAIN response[r].jsonBody
            /\ response[r].jsonBody.details = body[r].parseError
            /\ calls[r] = <<[op |-> "arrayBuffer"], [op |-> "Parse"]>>
            /\ locals[r].filePart = [data |-> <<>>]
            /\ locals[r].fields = <<>>
            /\ locals[r].connectionString = ""

C11_Witness ==
    \E r \in Reqs :
        /\ handler[r] = "full"
        /\ BodyArrived(r)
        /\ body[r].parseError = "Cannot read properties of undefined"
        /\ Credential = ValidConnection
        /\ Answered(r)
        /\ StatusOf(response[r]) = 400

\* C12: whenever the handler of _index.js answers 400, it has made no call to
\* the blob store for that request (no createIfNotExists, no uploadData, not
\* even a client from the connection string), no awaited call of it rejected,
\* and with no other request around the store holds no container and no blob.
C12_NothingWrittenOn400 ==
    \A r \in Reqs :
        (handler[r] = "full" /\ StatusOf(response[r]) = 400) =>
            /\ NoStoreCall(r)
            /\ CallsOf(r, "fromConnectionString") = {}
            /\ faults[r] = <<>>
            /\ (\A q \in Reqs \ {r} : ~Arrived(q)) => (containers = {} /\ blobs = <<>>)

C12_Witness ==
    \E r \in Reqs :
        /\ handler[r] = "full"
        /\ StatusOf(response[r]) = 400
        /\ ErrorText(response[r]) = "Missing required fields"
        /\ Credential = ValidConnection
        /\ BodyArrived(r)

\* C13: within one request the handler of _index.js calls createIfNotExists
\* at most once and uploadData at most once; when an awaited call rejects, it
\* is the only one that did, the request is answered 500, and the rejected
\* call is the last call of the request (nothing is issued again).
C13_NoRetry ==
    \A r \in Reqs :
        handler[r] = "full" =>
            /\ Cardinality(CallsOf(r, "createIfNotExists")) <= 1
            /\ Cardinality(CallsOf(r, "uploadData")) <= 1
            /\ Cardinality(CallsOf(r, "arrayBuffer")) <= 1
            /\ faults[r] # <<>> =>
                  /\ Len(faults[r]) = 1
                  /\ Answered(r)
                  /\ StatusOf(response[r]) = 500
                  /\ calls[r][Len(calls[r])].op =
                        IF faults[r][1] = "uploadData after write"
                        THEN "uploadData" ELSE faults[r][1]

C13_Witness ==
    \E r \in Reqs :
        /\ handler[r] = "full"
        /\ faults[r] = <<"uploadData">>
        /\ Cardinality(CallsOf(r, "createIfNotExists")) = 1
        /\ Cardinality(CallsOf(r, "uploadData")) = 1
        /\ Answered(r)

\* A response of the handler of _index.js: a status and a JSON body whose
\* success flag tells the two outcomes apart.
Terminal(resp) ==
    /\ StatusOf(resp) \in {200, 400, 500}
    /\ "jsonBody" \in DOMAIN resp
    /\ resp.jsonBody.success = (resp.status = 200)

\* C15: with every awaited call returning or throwing in the end, each
\* request to the handler of _index.js is answered; the handler has returned
\* exactly when there is a response, which is a success or a failure; and a
\* response, once returned, is never followed by another.
C15_OneTerminalResponse ==
    /\ [](\A r \in Reqs :
            handler[r] = "full" =>
                /\ Answered(r) <=> response[r] # [status |-> 0]
                /\ Answered(r) => Terminal(response[r]))
    /\ [][\A r \in Reqs :
             (handler[r] = "full" /\ Answered(r)) =>
                 (response'[r] = response[r] /\ pc'[r] = pc[r])]_vars
    /\ \A r \in Reqs : (handler[r] = "full") ~> Answered(r)

C15_Witness ==
    \E r \in Reqs :
        /\ handler[r] = "full"
        /\ Answered(r)
        /\ faults[r] = <<"arrayBuffer">>
        /\ Terminal(response[r])

\* The awaited steps in the order of the handler's text.
AwaitedSteps == <<"arrayBuffer", "Parse", "createIfNotExists", "uploadData">>

\* The position of request r's call of the given name (0: no such call).
PositionOf(r, name) ==
    IF CallsOf(r, name) = {} THEN 0 ELSE CHOOSE i \in CallsOf(r, name) : TRUE

\* C16: in a request to the handler of _index.js the steps body read, parse,
\* container create-if-absent and upload are called in this order, none
\* without the one before it; Parse runs on a body that has arrived; while a
\* call is awaited it is the last call made; and an upload call exists only
\* when the request's createIfNotExists call has resolved (it did not reject
\* and the container is there).
C16_StepOrder ==
    \A r \in Reqs :
        handler[r] = "full" =>
            /\ \A k \in 2..Len(AwaitedSteps) :
                  PositionOf(r, AwaitedSteps[k]) # 0 =>
                      /\ PositionOf(r, AwaitedSteps[k - 1]) # 0
                      /\ PositionOf(r, AwaitedSteps[k - 1]) < PositionOf(r, AwaitedSteps[k])
            /\ PositionOf(r, "Parse") # 0 => BodyArrived(r)
            /\ pc[r] = "readBody" => calls[r][Len(calls[r])].op = "arrayBuffer"
            /\ pc[r] = "createContainer" => calls[r][Len(calls[r])].op = "createIfNotExists"
            /\ pc[r] = "upload" => calls[r][Len(calls[r])].op = "uploadData"
            /\ PositionOf(r, "uploadData") # 0 =>
                  /\ \A i \in 1..Len(faults[r]) : faults[r][i] # "createIfNotExists"
                  /\ UploadOf(r).container \in containers
                  /\ UploadOf(r).container = calls[r][PositionOf(r, "createIfNotExists")].container

C16_Witness ==
    \E r \in Reqs :
        /\ handler[r] = "full"
        /\ PositionOf(r, "uploadData") = Len(calls[r])
        /\ PositionOf(r, "arrayBuffer") = 1
        /\ StatusOf(response[r]) = 200

\* The first part of request r's body that carries a file name.
FirstFileOf(r) == CHOOSE i \in FilesOf(r) : \A j \in FilesOf(r) : i <= j

\* C17: when the body of a request to the handler of _index.js holds several
\* parts with a file name, the first of them in body order is the file: its
\* name decides the type check, its bytes are the only ones uploaded, no file
\* part is in the metadata map, and the later file parts cause no error (with
\* the first one accepted, all fields filled, a credential and no call
\* rejecting, the answer is 200; an 'Invalid file type' answer is given
\* exactly when the first one's name is not accepted).
C17_FirstFilePart ==
    \A r \in Reqs :
        (handler[r] = "full" /\ Parsed(r) /\ Cardinality(FilesOf(r)) >= 2) =>
            LET first == body[r].parts[FirstFileOf(r)]
            IN  /\ locals[r].filePart = first
                /\ \A i \in CallsOf(r, "uploadData") :
                      /\ calls[r][i].data = first.data
                      /\ \A j \in FilesOf(r) \ {FirstFileOf(r)} :
                            calls[r][i].data # body[r].parts[j].data
                /\ \A k \in DOMAIN locals[r].fields :
                      \E i \in NamedFieldsOf(r) : body[r].parts[i].name = k
                /\ (ErrorText(response[r])
                        = "Invalid file type. Only .xlsx and .xls files are allowed.")
                      <=> ~Accepted(first.filename)
                /\ (Answered(r) /\ Accepted(first.filename) /\ Lacking(r) = {}
                      /\ Credential = ValidConnection /\ faults[r] = <<>>) =>
                      /\ StatusOf(response[r]) = 200
                      /\ response[r].jsonBody.originalFileName = first.filename
                      /\ (\A q \in Reqs \ {r} : ~Arrived(q)) =>
                            Cardinality(DOMAIN blobs) = 1

C17_Witness ==
    \E r \in Reqs :
        /\ handler[r] = "full"
        /\ Parsed(r)
        /\ Cardinality(FilesOf(r)) = 2
        /\ body[r].parts[1].filename = GoodName
        /\ body[r].parts[2].filename = BadName
        /\ StatusOf(response[r]) = 200

\* The parts of request r's body without a file name.
NonFilesOf(r) == (1..Len(body[r].parts)) \ FilesOf(r)

\* The field name of part i of request r; 'undefined' for a part without one.
KeyOf(r, i) ==
    IF "name" \in DOMAIN body[r].parts[i] THEN body[r].parts[i].name ELSE "undefined"

\* A payload read as UTF-8 text: a byte that is no UTF-8 becomes U+FFFD.
AsText(data) ==
    [i \in 1..Len(data) |-> IF data[i] = "\\xFF" THEN "\\uFFFD" ELSE data[i]]

\* The handler of request r has run its loop over the parts: the body parsed,
\* a file was found and, in _index.js, its name was accepted.
Collected(r) ==
    /\ Parsed(r)
    /\ FilesOf(r) # {}
    /\ handler[r] = "full" => Accepted(locals[r].filePart.filename)

\* The map whose keys are key(i) for the parts i of `idx`, each with the text
\* of the last such part.
MapOf(r, idx, key(_)) ==
    [k \in {key(i) : i \in idx} |->
        AsText(body[r].parts[CHOOSE i \in idx :
                                /\ key(i) = k
                                /\ \A j \in idx : key(j) = k => j <= i].data)]

\* All that the handler holds for request r.
Own(r) ==
    <<pc[r], handler[r], headers[r], body[r], locals[r], calls[r], faults[r],
      response[r]>>

\* The company that request r submitted (in the last part of that name).
CompanyOf(r) ==
    LET named == {i \in 1..Len(body[r].parts) :
                    /\ IsNamedField(body[r].parts[i])
                    /\ body[r].parts[i].name = "company"}
        last == CHOOSE i \in named : \A j \in named : j <= i
    IN  body[r].parts[last].data

\* The answer of request r follows from its own input and from the outcomes
\* of its own awaited calls, whatever became of the other requests.
AnsweredOnItsOwn(r) ==
    /\ (pc[r] = "upload") => ENABLED Uploaded(r)
    /\ ~Arrived(r) => Own(r) = <<"idle", "", <<>>, [pending |-> TRUE],
                                 NoLocals, <<>>, <<>>, [status |-> 0]>>
    /\ locals[r].parts # <<>> => (BodyArrived(r) /\ locals[r].parts = body[r].parts)
    /\ locals[r].fields # <<>> =>
          (Parsed(r) /\ locals[r].fields =
                          MapOf(r, NamedFieldsOf(r), LAMBDA i : body[r].parts[i].name))
    /\ locals[r].filePart # [data |-> <<>>] =>
          (Parsed(r) /\ FilesOf(r) # {}
              /\ locals[r].filePart = body[r].parts[FirstFileOf(r)])
    /\ Answered(r) =>
          /\ ~HasContentType(r) => StatusOf(response[r]) = 400
          /\ faults[r] # <<>> => StatusOf(response[r]) = 500
          /\ IF ~ValidRequest(r)
             THEN (Parsed(r) /\ Lacking(r) # {}) => StatusOf(response[r]) = 400
             ELSE /\ Credential = "" => StatusOf(response[r]) = 500
                  /\ (Credential = ValidConnection /\ faults[r] = <<>>) =>
                        LET company == CompanyOf(r)
                            upload == UploadOf(r)
                        IN  /\ StatusOf(response[r]) = 200
                            /\ response[r].jsonBody.metadata["company"] = company
                            /\ upload.data = body[r].parts[FirstFileOf(r)].data
                            /\ upload.metadata["company"] = company
                            /\ SubSeq(upload.key, 1, Len(company)) = company
                            /\ upload.key \in DOMAIN blobs

\* C14: requests to the handler of _index.js are independent.  What the
\* handler holds for a request (parts, file, fields) comes from that request
\* alone, and nothing is held for a request that has not arrived; the answer
\* of each follows from its own input and its own calls' outcomes (a valid
\* request whose calls succeed is answered 200 and its object is stored,
\* whether or not other requests failed meanwhile); and an upload that is
\* pending can always complete.
C14_Independent ==
    \A r \in Reqs : handler[r] \in {"", "full"} => AnsweredOnItsOwn(r)

C14_Witness ==
    \E r, q \in Reqs :
        /\ r # q
        /\ handler[r] = "full" /\ handler[q] = "full"
        /\ pc[r] = "upload"
        /\ Answered(q)
        /\ faults[q] = <<"createIfNotExists">>
        /\ StatusOf(response[q]) = 500
        /\ CompanyOf(r) # CompanyOf(q)

\* C18 (as stated): the metadata map holds exactly the parts without a file
\* name, under their field names, with the payload as text (for several parts
\* of one name, the last).  The handler of _index.js leaves out a part that
\* has neither a file name nor a name.
C18_MetadataMapAsStated ==
    \A r \in Reqs :
        Collected(r) =>
            /\ \A i \in NonFilesOf(r) :
                  \E k \in DOMAIN locals[r].fields :
                      /\ "name" \in DOMAIN body[r].parts[i] => k = body[r].parts[i].name
                      /\ \E j \in NonFilesOf(r) :
                            /\ KeyOf(r, j) = KeyOf(r, i)
                            /\ locals[r].fields[k] = AsText(body[r].parts[j].data)
            /\ \A k \in DOMAIN locals[r].fields :
                  \E i \in NonFilesOf(r) :
                      locals[r].fields[k] = AsText(body[r].parts[i].data)

\* C18 (amended): in _index.js the metadata map holds exactly the parts that
\* have no file name and a non-empty field name, under their field names,
\* with the payload as text (for several parts of one name, the last); a
\* part with neither file name nor name is left out.  In index.js the map
\* holds every part without a file name, a part without a name under the key
\* 'undefined'.  In both, no part with a file name contributes a key, and
\* fields beyond the required ones are kept.
C18_MetadataMap ==
    \A r \in Reqs :
        Collected(r) =>
            /\ handler[r] = "full" =>
                  locals[r].fields =
                      MapOf(r, NamedFieldsOf(r), LAMBDA i : body[r].parts[i].name)
            /\ handler[r] = "basic" =>
                  locals[r].fields = MapOf(r, NonFilesOf(r), LAMBDA i : KeyOf(r, i))
            /\ \A k \in DOMAIN locals[r].fields :
                  \E i \in NonFilesOf(r) : KeyOf(r, i) = k

C18_Witness ==
    \E r \in Reqs :
        /\ handler[r] = "full"
        /\ Collected(r)
        /\ \E i \in NonFilesOf(r) : "name" \notin DOMAIN body[r].parts[i]
        /\ "undefined" \notin DOMAIN locals[r].fields
        /\ Cardinality(DOMAIN locals[r].fields) = Len(requiredFields)
        /\ StatusOf(response[r]) = 200

\* The place of a name in the list of required fields (0: not in it).
RequiredIndex(f) ==
    IF \E i \in 1..Len(requiredFields) : requiredFields[i] = f
    THEN CHOOSE i \in 1..Len(requiredFields) : requiredFields[i] = f
    ELSE 0

\* The required fields that request r submits with nothing but white space
\* (in the last part of that name).
BlankRequiredOf(r) ==
    {body[r].parts[i].name : i \in {j \in FinalFieldsOf(r) :
        /\ body[r].parts[j].name \in RequiredSet
        /\ Blank(body[r].parts[j].data)}}

\* C19: when a request to the handler of _index.js passes the earlier checks
\* and submits a required field with an empty or white-space-only value, the
\* answer is 400 'Missing required fields', that field is in missingFields,
\* and missingFields lists its names in the order of the required-key list.
C19_BlankIsMissing ==
    \A r \in Reqs :
        (handler[r] = "full" /\ Collected(r) /\ BlankRequiredOf(r) # {}) =>
            /\ Answered(r)
            /\ JsonFailure(response[r], 400, "Missing required fields")
            /\ "missingFields" \in DOMAIN response[r].jsonBody
            /\ LET listed == response[r].jsonBody.missingFields
               IN  /\ \A f \in BlankRequiredOf(r) : \E i \in 1..Len(listed) : listed[i] = f
                   /\ \A i \in 1..Len(listed) : RequiredIndex(listed[i]) # 0
                   /\ \A i, j \in 1..Len(listed) :
                         i < j => RequiredIndex(listed[i]) < RequiredIndex(listed[j])
            /\ NoStoreCall(r)

C19_Witness ==
    \E r \in Reqs :
        /\ handler[r] = "full"
        /\ Collected(r)
        /\ BlankRequiredOf(r) = {"company"}
        /\ \E i \in NamedFieldsOf(r) : body[r].parts[i].data = <<" ">>
        /\ "jsonBody" \in DOMAIN response[r]
        /\ "missingFields" \in DOMAIN response[r].jsonBody
        /\ response[r].jsonBody.missingFields = <<"company", "unit">>

\* A timestamp as the handler's clock can give it.
IsTimestamp(text) == \E t \in 0..MaxClock : text = toISOString(t)

\* What C20 asks of an upload call of request r.
AttachesAll(r, call) ==
    /\ call.blobContentType # ""
    /\ {"originalFilename", "uploadedAt"} \subseteq DOMAIN call.metadata
    /\ call.metadata["originalFilename"] = body[r].parts[FirstFileOf(r)].filename
    /\ IsTimestamp(call.metadata["uploadedAt"])
    /\ \A k \in DOMAIN locals[r].fields :
          /\ k \in DOMAIN call.metadata
          /\ call.metadata[k] = locals[r].fields[k]

\* C20 (as stated): every upload call of the handler of _index.js carries a
\* content type and, as blob metadata, the original file name, an upload
\* timestamp and every key and value of the metadata map.  With a form field
\* named originalFilename or uploadedAt the metadata holds the field's value
\* in place of the file name or the timestamp.
C20_UploadMetadata ==
    \A r \in Reqs :
        handler[r] = "full" =>
            \A i \in CallsOf(r, "uploadData") : AttachesAll(r, calls[r][i])

\* C20, for requests without a field named like the handler's own keys:
\* there the statement holds.
C20_UploadMetadataOwnKeysFree ==
    \A r \in Reqs :
        (handler[r] = "full"
            /\ DOMAIN locals[r].fields \cap {"originalFilename", "uploadedAt"} = {}) =>
            \A i \in CallsOf(r, "uploadData") : AttachesAll(r, calls[r][i])

C20_OwnKeysFreeWitness ==
    \E r \in Reqs :
        /\ handler[r] = "full"
        /\ CallsOf(r, "uploadData") # {}
        /\ "notes" \in DOMAIN locals[r].fields
        /\ now = MaxClock

\* No request but r has arrived.
Alone(r) == \A q \in Reqs \ {r} : ~Arrived(q)

\* The object that an upload call puts into the store.
ObjectOf(call) ==
    [container |-> call.container, data |-> call.data,
     blobContentType |-> call.blobContentType, metadata |-> call.metadata]

\* C21: on a 200 answer of the handler of _index.js, fileName is the key
\* that the upload call was given, originalFileName is the file name of the
\* selected (first) file part, url is the URL of the blob of that key in the
\* container of the upload, and the store holds an object under that key
\* (with no other request around: the object of this upload).
C21_ResultDescribesObject ==
    \A r \in Reqs :
        (handler[r] = "full" /\ StatusOf(response[r]) = 200) =>
            LET upload == UploadOf(r)
                result == response[r].jsonBody
            IN  /\ Cardinality(CallsOf(r, "uploadData")) = 1
                /\ result.fileName = upload.key
                /\ result.originalFileName = body[r].parts[FirstFileOf(r)].filename
                /\ result.url = [container |-> upload.container, blob |-> upload.key]
                /\ upload.key \in DOMAIN blobs
                /\ Alone(r) => blobs[upload.key] = ObjectOf(upload)

C21_Witness ==
    \E r \in Reqs :
        /\ handler[r] = "full"
        /\ StatusOf(response[r]) = 200
        /\ response[r].jsonBody.originalFileName = <<"R", ".", "X", "L", "S">>
        /\ response[r].jsonBody.fileName # response[r].jsonBody.originalFileName
        /\ response[r].jsonBody.fileName \in DOMAIN blobs

\* The calls that the handlers make: none of them removes anything.
KnownCalls ==
    {"arrayBuffer", "Parse", "readFileSync", "fromConnectionString",
     "createIfNotExists", "uploadData"}

\* C22: the handler of _index.js makes no call that deletes; when the upload
\* call rejects after the store has taken the object, the answer is 500 and
\* the object stays in the store under its key (with no other request
\* around: exactly as this upload wrote it).
C22_OrphanStays ==
    \A r \in Reqs :
        handler[r] = "full" =>
            /\ \A i \in 1..Len(calls[r]) : calls[r][i].op \in KnownCalls
            /\ (faults[r] # <<>> /\ faults[r][Len(faults[r])] = "uploadData after write") =>
                  /\ Answered(r)
                  /\ JsonFailure(response[r], 500, "Internal server error")
                  /\ UploadOf(r).key \in DOMAIN blobs
                  /\ Alone(r) => blobs[UploadOf(r).key] = ObjectOf(UploadOf(r))

C22_Witness ==
    \E r \in Reqs :
        /\ handler[r] = "full"
        /\ faults[r] = <<"uploadData after write">>
        /\ StatusOf(response[r]) = 500
        /\ Cardinality(DOMAIN blobs) = 1

\* C23: ensuring the container is idempotent across requests, in both
\* registrations.  The store never holds a container other than 'upload';
\* every createIfNotExists and every upload call names it, and an upload is
\* called only when it is there; a request whose createIfNotExists call has
\* resolved has gone on to its upload, whether the container was new or
\* not; and two requests with the same input (and, in _index.js, the same
\* timestamp) make the same upload call, although at most one of them
\* created the container.
C23_ContainerIdempotent ==
    /\ containers \subseteq {"upload"}
    /\ \A k \in DOMAIN blobs : blobs[k].container = "upload"
    /\ \A r \in Reqs :
          /\ \A i \in CallsOf(r, "createIfNotExists") : calls[r][i].container = "upload"
          /\ \A i \in CallsOf(r, "uploadData") :
                calls[r][i].container = "upload" /\ "upload" \in containers
          /\ (CallsOf(r, "createIfNotExists") # {} /\ pc[r] # "createContainer"
                /\ faults[r] = <<>>) => CallsOf(r, "uploadData") # {}
    /\ \A r1, r2 \in Reqs :
          (r1 # r2 /\ handler[r1] = handler[r2] /\ body[r1] = body[r2]
              /\ CallsOf(r1, "uploadData") # {} /\ CallsOf(r2, "uploadData") # {}
              /\ (handler[r1] = "full" => UploadedAt(r1) = UploadedAt(r2))) =>
              UploadOf(r1) = UploadOf(r2)

C23_Witness ==
    \E r1, r2 \in Reqs :
        /\ r1 # r2
        /\ handler[r1] = "basic" /\ handler[r2] = "basic"
        /\ StatusOf(response[r1]) = 200
        /\ StatusOf(response[r2]) = 200
        /\ containers = {"upload"}

\* The text of a file name after its last '.'.
AfterLastDot(name) ==
    LET dots == {i \in 1..Len(name) : name[i] = "."}
        from == IF dots = {} THEN 1 ELSE 1 + CHOOSE i \in dots : \A j \in dots : j <= i
    IN  [i \in 1..(Len(name) + 1 - from) |-> name[from + i - 1]]

\* Requests r1 and r2 to the handler of _index.js have made their upload
\* calls for the same company and file extension in the same millisecond.
Collide(r1, r2) ==
    /\ r1 # r2
    /\ handler[r1] = "full" /\ handler[r2] = "full"
    /\ CallsOf(r1, "uploadData") # {} /\ CallsOf(r2, "uploadData") # {}
    /\ CompanyOf(r1) = CompanyOf(r2)
    /\ AfterLastDot(body[r1].parts[FirstFileOf(r1)].filename)
          = AfterLastDot(body[r2].parts[FirstFileOf(r2)].filename)
    /\ UploadedAt(r1) = UploadedAt(r2)

\* C24: two requests to the handler of _index.js with the same company and
\* file extension whose timestamp is read in the same millisecond have the
\* same key; neither waits for or fails on the other (with no call rejecting
\* both are answered 200), and the store holds one object under that key,
\* written by one of the two (or by a further request of that same key).  An upload that resolves puts its object under
\* its key whatever was there, so the later upload replaces the earlier
\* object.
C24_SameKeyOverwrites ==
    /\ [](\A r1, r2 \in Reqs :
            Collide(r1, r2) =>
                /\ UploadOf(r1).key = UploadOf(r2).key
                /\ (Answered(r1) /\ Answered(r2)
                      /\ faults[r1] = <<>> /\ faults[r2] = <<>>) =>
                      /\ StatusOf(response[r1]) = 200
                      /\ StatusOf(response[r2]) = 200
                      /\ UploadOf(r1).key \in DOMAIN blobs
                      /\ \E q \in Reqs :
                            /\ q \in {r1, r2} \/ Collide(q, r1)
                            /\ blobs[UploadOf(r1).key] = ObjectOf(UploadOf(q)))
    /\ [][\A r \in Reqs :
             (handler[r] = "full" /\ pc[r] = "upload" /\ pc'[r] = "done"
                 /\ faults'[r] = <<>>) =>
                 /\ response'[r].status = 200
                 /\ DOMAIN blobs' = DOMAIN blobs \cup {UploadOf(r).key}
                 /\ blobs'[UploadOf(r).key] = ObjectOf(UploadOf(r))]_vars

C24_Witness ==
    \E r1, r2 \in Reqs :
        /\ Collide(r1, r2)
        /\ UploadOf(r1).data # UploadOf(r2).data
        /\ StatusOf(response[r1]) = 200
        /\ StatusOf(response[r2]) = 200
        /\ blobs[UploadOf(r1).key].data = UploadOf(r1).data
        /\ Cardinality(DOMAIN blobs) = 1

\* C25: every response of the handler of _index.js has status 200, 400 or
\* 500 and a success flag that is true exactly when the status is 200; a
\* response that carries missingFields has status 400 and a list that is not
\* empty.
C25_ResponseShape ==
    \A r \in Reqs :
        (handler[r] = "full" /\ response[r] # NoResponse) =>
            /\ StatusOf(response[r]) \in {200, 400, 500}
            /\ "jsonBody" \in DOMAIN response[r]
            /\ "success" \in DOMAIN response[r].jsonBody
            /\ response[r].jsonBody.success \in BOOLEAN
            /\ response[r].jsonBody.success <=> (response[r].status = 200)
            /\ "missingFields" \in DOMAIN response[r].jsonBody =>
                  /\ response[r].status = 400
                  /\ response[r].jsonBody.missingFields # <<>>

C25_Witness ==
    \E r \in Reqs :
        /\ handler[r] = "full"
        /\ StatusOf(response[r]) = 400
        /\ "missingFields" \in DOMAIN response[r].jsonBody
        /\ Len(response[r].jsonBody.missingFields) = 1

\* The file name ends with '.xlsx' or '.xls', in letters of either case.
AllowedName(name) ==
    \E i \in 1..Len(name) :
        /\ name[i] = "."
        /\ toLowerCase(SubSeq(name, i + 1, Len(name)))
              \in {<<"x", "l", "s", "x">>, <<"x", "l", "s">>}

\* The required fields for which request r submits no value, or a value of
\* white space alone, in the last part of that name.
UnmetRequired(r) ==
    {f \in RequiredSet :
        \A j \in FinalFieldsOf(r) :
            body[r].parts[j].name = f => Blank(body[r].parts[j].data)}

\* No connection string is to be had from the environment or the settings
\* file, or the one that is there cannot be used.
NoCredential ==
    IF env # "" THEN env # ValidConnection
    ELSE \/ ~settings.exists
         \/ ~settings.json
         \/ "AzureWebJobsStorage" \notin DOMAIN settings.Values
         \/ settings.Values["AzureWebJobsStorage"] # ValidConnection

\* The first check, in the stated precedence, that request r fails; "" when
\* it passes them all, "pending" while its body has not arrived.
FirstFailing(r) ==
    IF ~HasContentType(r) \/ headers[r]["content-type"] = "" THEN "content-type"
    ELSE IF headers[r]["content-type"]
              # "multipart/form-data; boundary=----WebKitFormBoundary7MA4YWxkTrZu0gW"
    THEN "boundary"
    ELSE IF ~BodyArrived(r) THEN "pending"
    ELSE IF body[r].parseError # "" THEN "parse"
    ELSE IF FilesOf(r) = {} THEN "file"
    ELSE IF ~AllowedName(body[r].parts[FirstFileOf(r)].filename) THEN "extension"
    ELSE IF UnmetRequired(r) # {} THEN "metadata"
    ELSE IF NoCredential THEN "credential"
    ELSE ""

\* The error text that answers a failed check.
ErrorOfCheck(check) ==
    CASE check = "content-type" -> "Missing content-type header"
      [] check = "boundary" -> "Malformed content-type header: boundary not found"
      [] check = "parse" -> "Failed to parse multipart data"
      [] check = "file" -> "No file uploaded"
      [] check = "extension" -> "Invalid file type. Only .xlsx and .xls files are allowed."
      [] check = "metadata" -> "Missing required fields"

\* C26: the handler of _index.js applies its checks in the order content-type,
\* boundary, parse, file presence, file extension, required metadata, storage
\* credential, and the first one that fails alone determines the response: a
\* failed check before the credential is answered 400 with that check's
\* error, missingFields is there only when the required metadata is the
\* first failure, a failed credential is answered 500 only when every check
\* before it passes, and no store call is made when a check fails.
C26_Precedence ==
    \A r \in Reqs :
        (handler[r] = "full" /\ Arrived(r)
            /\ "arrayBuffer" \notin {faults[r][i] : i \in 1..Len(faults[r])}) =>
            LET check == FirstFailing(r)
            IN  /\ check \notin {"", "pending"} =>
                      /\ Answered(r)
                      /\ NoStoreCall(r)
                      /\ "jsonBody" \in DOMAIN response[r]
                      /\ ("missingFields" \in DOMAIN response[r].jsonBody)
                            <=> (check = "metadata")
                /\ check \notin {"", "pending", "credential"} =>
                      JsonFailure(response[r], 400, ErrorOfCheck(check))
                /\ check = "metadata" =>
                      {response[r].jsonBody.missingFields[i] :
                          i \in 1..Len(response[r].jsonBody.missingFields)} = UnmetRequired(r)
                /\ check = "credential" =>
                      /\ StatusOf(response[r]) = 500
                      /\ response[r].jsonBody.success = FALSE
                /\ check \in {"", "pending"} =>
                      /\ StatusOf(response[r]) # 400
                      /\ (check = "" /\ Answered(r) /\ faults[r] = <<>>) =>
                            StatusOf(response[r]) = 200

\* A disallowed extension, a missing field and no credential together: the
\* extension is what the answer names.
C26_Witness ==
    \E r \in Reqs :
        /\ handler[r] = "full"
        /\ FirstFailing(r) = "extension"
        /\ UnmetRequired(r) # {}
        /\ NoCredential
        /\ JsonFailure(response[r], 400,
                       "Invalid file type. Only .xlsx and .xls files are allowed.")

\* The message of the error thrown in the handling of request r by a step
\* other than the multipart parsing; <<>> when no such step has thrown.
ThrownIn(r) ==
    IF faults[r] # <<>>
    THEN CASE faults[r][1] = "arrayBuffer" -> <<"Request aborted">>
           [] faults[r][1] = "createIfNotExists" -> <<"Service unavailable">>
           [] OTHER -> <<"Upload failed: connection reset">>
    ELSE IF FirstFailing(r) # "credential" THEN <<>>
    ELSE IF env # "" THEN <<"Invalid connection string">>
    ELSE IF ~settings.exists THEN <<>>
    ELSE IF ~settings.json THEN <<"Unexpected token in JSON">>
    ELSE IF "AzureWebJobsStorage" \notin DOMAIN settings.Values THEN <<>>
    ELSE IF settings.Values["AzureWebJobsStorage"] = "" THEN <<>>
    ELSE <<"Invalid connection string">>

\* C27: no exception leaves the handler of _index.js; an error thrown by the
\* body read, the read of the settings file, the construction of the client,
\* the container's creation or the upload is answered 500 with success =
\* false, error 'Internal server error' and the thrown message in details.
C27_NothingEscapes ==
    \A r \in Reqs :
        (handler[r] = "full" /\ Arrived(r)) =>
            /\ "exception" \notin DOMAIN response[r]
            /\ ThrownIn(r) # <<>> =>
                  /\ Answered(r)
                  /\ JsonFailure(response[r], 500, "Internal server error")
                  /\ "details" \in DOMAIN response[r].jsonBody
                  /\ response[r].jsonBody.details = ThrownIn(r)[1]
            /\ (ThrownIn(r) = <<>> /\ "jsonBody" \in DOMAIN response[r]) =>
                  ErrorText(response[r]) # "Internal server error"

C27_Witness ==
    \E r \in Reqs :
        /\ handler[r] = "full"
        /\ faults[r] = <<"arrayBuffer">>
        /\ JsonFailure(response[r], 500, "Internal server error")
        /\ response[r].jsonBody.details = "Request aborted"

\* C28: in the blob metadata of every upload call of the handler of
\* _index.js, originalFilename holds the file part's filename and uploadedAt
\* the handler's own timestamp, whatever form fields were submitted.  A form
\* field named originalFilename or uploadedAt replaces the handler's entry,
\* so this does not hold.
C28_OwnKeysProtected ==
    \A r \in Reqs :
        handler[r] = "full" =>
            \A i \in CallsOf(r, "uploadData") :
                /\ calls[r][i].metadata["originalFilename"]
                      = body[r].parts[FirstFileOf(r)].filename
                /\ IsTimestamp(calls[r][i].metadata["uploadedAt"])

\* C29: on every upload call of the handler of _index.js the blob content
\* type is the MIME type of .xlsx or of .xls, chosen by the file's extension
\* in letters of either case, never 'application/octet-stream', and the key
\* ends with the extension as the file name writes it.
C29_ContentTypeByExtension ==
    \A r \in Reqs :
        handler[r] = "full" =>
            \A i \in CallsOf(r, "uploadData") :
                LET call == calls[r][i]
                    ext == AfterLastDot(body[r].parts[FirstFileOf(r)].filename)
                IN  /\ toLowerCase(ext) \in {<<"x", "l", "s", "x">>, <<"x", "l", "s">>}
                    /\ call.blobContentType # "application/octet-stream"
                    /\ toLowerCase(ext) = <<"x", "l", "s", "x">> =>
                          call.blobContentType =
                            "application/vnd.openxmlformats-officedocument.spreadsheetml.sheet"
                    /\ toLowerCase(ext) = <<"x", "l", "s">> =>
                          call.blobContentType = "application/vnd.ms-excel"
                    /\ Len(call.key) > Len(ext)
                    /\ SubSeq(call.key, Len(call.key) - Len(ext), Len(call.key))
                          = <<".">> \o ext

C29_Witness ==
    \E r \in Reqs :
        /\ handler[r] = "full"
        /\ CallsOf(r, "uploadData") # {}
        /\ body[r].parts[FirstFileOf(r)].filename = <<"R", ".", "X", "L", "S">>
        /\ UploadOf(r).blobContentType = "application/vnd.ms-excel"
        /\ SubSeq(UploadOf(r).key, Len(UploadOf(r).key) - 3, Len(UploadOf(r).key))
              = <<".", "X", "L", "S">>

\* Part i of request r is a named form field that comes after another part of
\* its name and is the last of that name.
LastOfSeveral(r, i) ==
    /\ i \in FinalFieldsOf(r)
    /\ \E j \in 1..(i - 1) : Renames(r, j, i)

\* C30: when several non-file parts of a request to the handler of _index.js
\* share a field name, the metadata map holds the value of the last of them
\* in body order; the required-field validation judges that value, and the
\* blob metadata and the metadata echoed in the 200 response hold it.
C30_LastValueWins ==
    \A r \in Reqs :
        (handler[r] = "full" /\ Collected(r)) =>
            \A i \in 1..Len(body[r].parts) :
                LastOfSeveral(r, i) =>
                    LET name == body[r].parts[i].name
                        value == AsText(body[r].parts[i].data)
                    IN  /\ name \in DOMAIN locals[r].fields
                        /\ locals[r].fields[name] = value
                        /\ (name \in RequiredSet /\ Blank(body[r].parts[i].data)) =>
                              /\ JsonFailure(response[r], 400, "Missing required fields")
                              /\ \E k \in 1..Len(response[r].jsonBody.missingFields) :
                                    response[r].jsonBody.missingFields[k] = name
                        /\ (name \in RequiredSet /\ ~Blank(body[r].parts[i].data)
                              /\ "jsonBody" \in DOMAIN response[r]
                              /\ "missingFields" \in DOMAIN response[r].jsonBody) =>
                              \A k \in 1..Len(response[r].jsonBody.missingFields) :
                                  response[r].jsonBody.missingFields[k] # name
                        /\ \A k \in CallsOf(r, "uploadData") :
                              calls[r][k].metadata[name] = value
                        /\ StatusOf(response[r]) = 200 =>
                              response[r].jsonBody.metadata[name] = value

\* Two values for the company, the second one stored and echoed.
C30_Witness ==
    \E r \in Reqs :
        /\ handler[r] = "full"
        /\ StatusOf(response[r]) = 200
        /\ \E i \in 1..Len(body[r].parts) :
              /\ LastOfSeveral(r, i)
              /\ body[r].parts[i].name = "company"
              /\ body[r].parts[i].data = <<"B">>
        /\ response[r].jsonBody.metadata["company"] = <<"B">>
        /\ UploadOf(r).metadata["company"] = <<"B">>

====
